---------------------------- MODULE Spec2Model ----------------------------
(***************************************************************************)
(* Task scheduler of ai-job: the task/worker store, the REST ingress      *)
(* handlers (package api) and the Scheduler passes (package scheduler).   *)
(*                                                                         *)
(* Every store operation (one SQL statement of TaskRepository or          *)
(* WorkerRepository) is one atomic step; the handlers and the scheduler   *)
(* goroutine keep local copies of the records they read and write whole   *)
(* records back, so their steps interleave.                               *)
(*                                                                         *)
(* Units.  One time unit is 60 s.  CPU is counted in half cores, GPU in   *)
(* tenths of a device, worker memory in MiB (MiBPerGB to the GB the       *)
(* requirements are written in).                                          *)
(*                                                                         *)
(* Left out: name, description, input, user_id, registered_at and         *)
(* updated_at of the records (no guard reads them).                       *)
(***************************************************************************)
EXTENDS Integers, Sequences, FiniteSets, TLC

VARIABLES
    now,               \* wall clock (time.Now())
    tasks,             \* table tasks: id -> record
    workers,           \* table workers: id -> record
    resources,         \* Scheduler.resources (one WorkerResources for all workers)
    spc,               \* position of the scheduler goroutine
    pendingTasks,      \* processPendingTasks: local []*Task
    availableWorkers,  \* processPendingTasks / handleFailedWorkers: local []*Worker
    runningTasks,      \* checkTaskTimeouts: local []*Task
    ti,                \* index of the task the pass is at
    wi,                \* index of the worker the pass is at
    fb,                \* processPendingTasks is in its fallback branch
    sweep,             \* checkTaskTimeouts / handleFailedWorkers: now, threshold, fetched worker
    cancel,            \* cancelTask handler in flight
    report,            \* updateWorkerStatus handler in flight
    quota,             \* what the environment may still do: records created,
                       \* ingress requests sent, store calls that fail
    stopCh,            \* Scheduler.stopCh: open or closed
    waitGroup,         \* Scheduler.waitGroup: goroutines not yet done
    stopPc,            \* position of main in Scheduler.Stop
    mcp,               \* MCPWorker.ProcessTask: position, *MCPTask, its mcp_tasks row, result
    memq               \* a MemoryQueue: q.tasks, the calls made so far, the last return

vars == <<now, tasks, workers, resources, spc, pendingTasks, availableWorkers,
          runningTasks, ti, wi, fb, sweep, cancel, report, quota,
          stopCh, waitGroup, stopPc, mcp, memq>>

schedVars == <<spc, pendingTasks, availableWorkers, runningTasks, ti, wi, fb, sweep>>

loopVars == <<stopCh, waitGroup, stopPc>>

----------------------------------------------------------------------------
(* Bounds of the model *)

MaxTime == 2
MaxFailures == 1
MaxPushes == 3
MaxRequests == 1
RaceRequests == 2
RevertFailures == 2

(* Program constants *)

TaskPriorityNormal == 2
TaskPriorityHigh == 3
DefaultTimeout == 30
DefaultMaxRetries == 3
FreshnessWindow == 1
TwiceHeartbeatInterval == 1
TaskTimeout == 1
MaxTasks == 2
ListLimit == 100
MiBPerGB == 1024

Nil == "nil"
(* a nil *time.Time *)
NoTime == -1
StatusOK == 200
StatusNotFound == 404
(* no handler in flight *)
Idle == [pc |-> "idle"]
(* ProcessTask has not been called *)
NoCall == [pc |-> "none"]
(* no sweep under way; no record fetched yet *)
NoSweep == [pc |-> "none"]
NoRecord == [id |-> Nil]
TaskIdPool == <<"t1", "t2", "t3">>
WorkerIdPool == <<"w1", "w2">>
TaskIds == {TaskIdPool[i] : i \in 1..Len(TaskIdPool)}
WorkerIds == {WorkerIdPool[i] : i \in 1..Len(WorkerIdPool)}
ModelNames == {"", "m"}

(* uuid.New(): an id no record has yet; the pools are handed out in order *)
NewTaskId == TaskIdPool[Cardinality(DOMAIN tasks) + 1]
NewWorkerId == WorkerIdPool[Cardinality(DOMAIN workers) + 1]

TaskStatusPending == "pending"
TaskStatusScheduled == "scheduled"
TaskStatusRunning == "running"
TaskStatusCompleted == "completed"
TaskStatusFailed == "failed"
TaskStatusCancelled == "cancelled"

Terminal == {TaskStatusCompleted, TaskStatusFailed, TaskStatusCancelled}

(* The CreateTaskRequest bodies a client sends *)
CreateTaskRequests ==
    { [model_name |-> "m", priority |-> TaskPriorityNormal, timeout |-> 0, max_retries |-> -1],
      [model_name |-> "", priority |-> TaskPriorityHigh, timeout |-> 1, max_retries |-> 1] }

(* What a worker advertises: (2 cores, 4 GB, 1.0 GPU) or (1 core, 1 GB, 0.5 GPU) *)
RegisterWorkerRequests ==
    { [capabilities |-> {"m"}, available_cpu |-> 4, available_memory |-> 4 * MiBPerGB,
       available_gpu |-> 10],
      [capabilities |-> {}, available_cpu |-> 2, available_memory |-> 1 * MiBPerGB,
       available_gpu |-> 5] }

----------------------------------------------------------------------------
(* Records *)

NewTask(id, modelName, priority) ==
    [ id |-> id, model_name |-> modelName, status |-> TaskStatusPending,
      priority |-> priority, output |-> Nil, error |-> "",
      created_at |-> now, started_at |-> NoTime, completed_at |-> NoTime,
      worker_id |-> Nil, timeout |-> DefaultTimeout,
      retry_count |-> 0, max_retries |-> DefaultMaxRetries ]

NewWorker(id, capabilities) ==
    [ id |-> id, status |-> "available", capabilities |-> capabilities,
      current_task_id |-> Nil, last_heartbeat |-> now,
      available_memory |-> 0, available_cpu |-> 0, available_gpu |-> 0,
      total_tasks_handled |-> 0 ]

(* UPDATE tasks SET ... WHERE id = :id : the columns written from the record *)
TaskRepoUpdate(table, t) ==
    IF t.id \notin DOMAIN table THEN table
    ELSE [table EXCEPT ![t.id] =
            [@ EXCEPT !.model_name = t.model_name, !.status = t.status,
                      !.priority = t.priority, !.output = t.output,
                      !.error = t.error, !.started_at = t.started_at,
                      !.completed_at = t.completed_at,
                      !.worker_id = t.worker_id,
                      !.retry_count = t.retry_count]]

(* UPDATE workers SET ... WHERE id = :id *)
WorkerRepoUpdate(table, w) ==
    IF w.id \notin DOMAIN table THEN table
    ELSE [table EXCEPT ![w.id] =
            [@ EXCEPT !.status = w.status, !.capabilities = w.capabilities,
                      !.current_task_id = w.current_task_id,
                      !.last_heartbeat = w.last_heartbeat,
                      !.available_memory = w.available_memory,
                      !.available_cpu = w.available_cpu,
                      !.available_gpu = w.available_gpu,
                      !.total_tasks_handled = w.total_tasks_handled]]

(* All orderings of the rows S that ORDER BY allows; Before is the strict order *)
Orderings(S, Before(_, _)) ==
    { s \in [1..Cardinality(S) -> S] :
        /\ \A i, j \in 1..Cardinality(S) : i # j => s[i] # s[j]
        /\ \A i, j \in 1..Cardinality(S) : i < j => ~Before(s[j], s[i]) }

Limit(s, n) == SubSeq(s, 1, IF Len(s) < n THEN Len(s) ELSE n)

(* ORDER BY created_at ASC alone *)
CreatedBefore(a, b) == a.created_at < b.created_at

TaskBefore(a, b) ==
    \/ a.priority > b.priority
    \/ a.priority = b.priority /\ a.created_at < b.created_at

(* SELECT * FROM tasks WHERE status = 'pending'
   ORDER BY priority DESC, created_at ASC LIMIT $2 *)
GetPendingTasks(limit) ==
    { Limit(s, limit) :
        s \in Orderings({tasks[t] : t \in {x \in DOMAIN tasks :
                            tasks[x].status = TaskStatusPending}}, TaskBefore) }

WorkerBefore(a, b) ==
    \/ a.available_gpu > b.available_gpu
    \/ a.available_gpu = b.available_gpu /\ a.available_memory > b.available_memory

(* SELECT * FROM workers WHERE status = 'available' AND current_task_id IS NULL
   AND last_heartbeat > now - 1 minute ORDER BY available_gpu DESC, available_memory DESC *)
AvailableRows(table, at) ==
    {table[w] : w \in {x \in DOMAIN table :
                    /\ table[x].status = "available"
                    /\ table[x].current_task_id = Nil
                    /\ table[x].last_heartbeat > at - FreshnessWindow}}

ListAvailable == Orderings(AvailableRows(workers, now), WorkerBefore)

(* A store call answers or fails; a failed call changes nothing in the store.
   With the call goes what the action takes from the quota: n requests. *)
StoreCallOf(ok, n) ==
    /\ ok \in BOOLEAN
    /\ ~ok => quota.faults > 0
    /\ quota.reqs >= n
    /\ quota' = [quota EXCEPT !.reqs = @ - n,
                              !.faults = IF ok THEN @ ELSE @ - 1]

StoreCall(ok) == StoreCallOf(ok, 0)

----------------------------------------------------------------------------
(* Resource requirements (canWorkerHandleTask, updateWorkerResources) *)

Required(modelName) ==
    IF modelName # ""
    THEN [cpu |-> 2, mem |-> 2, gpu |-> 7]
    ELSE [cpu |-> 1, mem |-> 1, gpu |-> 3]

(* A check of status and capability that leaves the resources out *)
FitsCapability(worker, task, res) ==
    /\ worker.status = "available"
    /\ worker.current_task_id = Nil
    /\ task.model_name # "" => task.model_name \in worker.capabilities

canWorkerHandleTask(worker, task, res) ==
    /\ worker.status = "available"
    /\ worker.current_task_id = Nil
    /\ task.model_name # "" => task.model_name \in worker.capabilities
    /\ ~ \/ res.cpu + Required(task.model_name).cpu > worker.available_cpu
         \/ (res.mem + Required(task.model_name).mem) * MiBPerGB > worker.available_memory
         \/ res.gpu + Required(task.model_name).gpu > worker.available_gpu

(* cpu, memory, gpu := s.resources.Get(): what the scheduler takes as
   committed when it considers worker w; the one WorkerResources serves every
   worker *)
Committed(res, w) == res

(* s.resources.Update(cpuReq, memReq, gpuReq) *)
WorkerResourcesUpdate(cpu, mem, gpu) == [cpu |-> cpu, mem |-> mem, gpu |-> gpu]

(* the worker record after updateWorkerResources *)
updateWorkerResources(worker, task) ==
    [worker EXCEPT
        !.available_cpu = @ - Required(task.model_name).cpu,
        !.available_memory = @ - Required(task.model_name).mem * MiBPerGB,
        !.available_gpu = @ - Required(task.model_name).gpu]

----------------------------------------------------------------------------
(* MemoryQueue (package queue), used by one caller.  An entry is the task
   pushed, with the number of the Push call that brought it in; pushed, popped
   and deleted count the calls that succeeded. *)

(* newMemoryQueue: tasks: make([]models.Task, 0) *)
NewMemoryQueue ==
    [tasks |-> << >>, pushed |-> 0, popped |-> 0, deleted |-> 0, ret |-> [op |-> "none"]]

(* q.tasks = append(q.tasks, *task) *)
QueuePush(q, task) == Append(q, task)

(* A Pop that takes the task pushed last *)
QueuePopLast(q) ==
    IF Len(q) = 0
    THEN [tasks |-> q, task |-> NoRecord, err |-> "queue is empty"]
    ELSE [tasks |-> SubSeq(q, 1, Len(q) - 1), task |-> q[Len(q)], err |-> Nil]

(* task := q.tasks[0]; q.tasks = q.tasks[1:] *)
QueuePop(q) ==
    IF Len(q) = 0
    THEN [tasks |-> q, task |-> NoRecord, err |-> "queue is empty"]
    ELSE [tasks |-> SubSeq(q, 2, Len(q)), task |-> q[1], err |-> Nil]

(* the first i with q.tasks[i].ID == taskID is cut out:
   append(q.tasks[:i], q.tasks[i+1:]...) *)
QueueDelete(q, taskID) ==
    IF \E i \in 1..Len(q) : q[i].id = taskID
    THEN LET i == CHOOSE k \in 1..Len(q) :
                    /\ q[k].id = taskID
                    /\ \A j \in 1..(k - 1) : q[j].id # taskID
         IN  [tasks |-> SubSeq(q, 1, i - 1) \o SubSeq(q, i + 1, Len(q)), err |-> Nil]
    ELSE [tasks |-> q, err |-> "task not found"]

(* len(q.tasks) *)
QueueSize(q) == Len(q)

----------------------------------------------------------------------------
(* The state after construction: empty tables, the scheduler idle, no handler
   in flight; q is what the environment may do in the run *)
InitWith(q) ==
    /\ now = 0
    /\ tasks = << >>
    /\ workers = << >>
    /\ resources = WorkerResourcesUpdate(0, 0, 0)
    /\ spc = "idle"
    /\ pendingTasks = << >>
    /\ availableWorkers = << >>
    /\ runningTasks = << >>
    /\ ti = 0
    /\ wi = 0
    /\ fb = FALSE
    /\ sweep = NoSweep
    /\ cancel = Idle
    /\ report = Idle
    /\ quota = q
    /\ stopCh = "open"
    /\ waitGroup = 1
    /\ stopPc = "none"
    /\ mcp = NoCall
    /\ memq = NewMemoryQueue

(* one task, one worker, a store that answers every call *)
Init ==
    InitWith([tasks |-> 1, workers |-> 1, reqs |-> MaxRequests, faults |-> 0])

(* one task, every worker of the pool *)
InitTwoWorkers ==
    InitWith([tasks |-> 1, workers |-> Len(WorkerIdPool), reqs |-> MaxRequests, faults |-> 0])

(* one task, one worker, and requests enough for a report to follow another *)
InitRace ==
    InitWith([tasks |-> 1, workers |-> 1, reqs |-> RaceRequests, faults |-> 0])

(* every task and every worker of the pool, and no other request *)
InitQueue ==
    InitWith([tasks |-> Len(TaskIdPool), workers |-> Len(WorkerIdPool), reqs |-> 0,
              faults |-> 0])

(* every task of the pool, more than a pass fetches, and one worker *)
InitBatch ==
    InitWith([tasks |-> Len(TaskIdPool), workers |-> 1, reqs |-> 0, faults |-> 0])

(* one task, one worker, a store whose calls may fail *)
InitFaulty ==
    InitWith([tasks |-> 1, workers |-> 1, reqs |-> MaxRequests, faults |-> MaxFailures])

(* two tasks, every worker of the pool, a store whose calls may fail, and
   no other request *)
InitRetry ==
    InitWith([tasks |-> MaxTasks, workers |-> Len(WorkerIdPool), reqs |-> 0,
              faults |-> MaxFailures])

(* one task, one worker, and enough failing store calls for a worker write
   and the compensating task write to fail both *)
InitRevert ==
    InitWith([tasks |-> 1, workers |-> 1, reqs |-> MaxRequests, faults |-> RevertFailures])

(* Scheduler.Start has run: waitGroup.Add(1); go s.schedulingLoop(ctx).
   schedulingLoop has not returned while the wait group still counts it. *)
LoopRunning == waitGroup = 1

(* A Stop that does not wait for the loop *)
WaitSkipped(n) == TRUE

(* s.waitGroup.Wait() returns when the counter is zero *)
WaitDone(n) == n = 0

(* Scheduler.Stop: close(s.stopCh) *)
Stop ==
    /\ stopPc = "none"
    /\ stopCh' = "closed"
    /\ stopPc' = "wait"
    /\ UNCHANGED <<memq, waitGroup, mcp, now, tasks, workers, resources, schedVars, cancel, report, quota>>

(* schedulingLoop, between passes: case <-s.stopCh: return, and the deferred
   s.waitGroup.Done() *)
LoopReturn ==
    /\ LoopRunning
    /\ spc = "idle"
    /\ stopCh = "closed"
    /\ waitGroup' = waitGroup - 1
    /\ UNCHANGED <<memq, stopCh, stopPc, mcp, now, tasks, workers, resources, schedVars, cancel, report, quota>>

(* Scheduler.Stop: s.waitGroup.Wait() returns and Stop returns *)
StopReturn ==
    /\ stopPc = "wait"
    /\ WaitDone(waitGroup)
    /\ stopPc' = "returned"
    /\ UNCHANGED <<memq, stopCh, waitGroup, mcp, now, tasks, workers, resources, schedVars, cancel, report, quota>>

(* The process is started again after main has returned: scheduler.New builds
   a Scheduler with resources: &WorkerResources{}, a new stopCh and no
   goroutine but the loop Start launches; handlers of the old process are
   gone with it.  The store is the database and stays. *)
Restart ==
    /\ stopPc = "returned"
    /\ resources' = WorkerResourcesUpdate(0, 0, 0)
    /\ stopCh' = "open"
    /\ waitGroup' = 1
    /\ stopPc' = "none"
    /\ spc' = "idle"
    /\ pendingTasks' = << >>
    /\ availableWorkers' = << >>
    /\ runningTasks' = << >>
    /\ ti' = 0
    /\ wi' = 0
    /\ fb' = FALSE
    /\ sweep' = NoSweep
    /\ cancel' = Idle
    /\ report' = Idle
    /\ UNCHANGED <<memq, mcp, now, tasks, workers, quota>>

(* MemoryQueue.Push *)
MemoryQueuePush ==
    /\ memq.pushed < MaxPushes
    /\ \E id \in TaskIds :
        memq' = [memq EXCEPT
                    !.tasks = QueuePush(@, [id |-> id, seq |-> memq.pushed + 1]),
                    !.pushed = @ + 1,
                    !.ret = [op |-> "push", err |-> Nil]]
    /\ UNCHANGED <<loopVars, mcp, now, tasks, workers, resources, schedVars, cancel, report, quota>>

(* MemoryQueue.Pop *)
MemoryQueuePop ==
    /\ LET r == QueuePop(memq.tasks)
       IN  memq' = [memq EXCEPT
                       !.tasks = r.tasks,
                       !.popped = IF r.err = Nil THEN @ + 1 ELSE @,
                       !.ret = [op |-> "pop", task |-> r.task, err |-> r.err]]
    /\ UNCHANGED <<loopVars, mcp, now, tasks, workers, resources, schedVars, cancel, report, quota>>

(* MemoryQueue.Delete *)
MemoryQueueDelete ==
    /\ \E id \in TaskIds :
        LET r == QueueDelete(memq.tasks, id)
        IN  memq' = [memq EXCEPT
                        !.tasks = r.tasks,
                        !.deleted = IF r.err = Nil THEN @ + 1 ELSE @,
                        !.ret = [op |-> "delete", id |-> id, err |-> r.err]]
    /\ UNCHANGED <<loopVars, mcp, now, tasks, workers, resources, schedVars, cancel, report, quota>>

(* time passes *)
Tick ==
    /\ now < MaxTime
    /\ now' = now + 1
    /\ UNCHANGED <<memq, loopVars, mcp, tasks, workers, resources, schedVars, cancel, report, quota>>

----------------------------------------------------------------------------
(* Ingress: POST /tasks, POST /workers, PUT /workers/{id}/heartbeat *)

(* the record with the request's timeout and max_retries taken as sent *)
CreateTaskRecordAsSent(id, req) ==
    [NewTask(id, req.model_name, req.priority) EXCEPT
        !.timeout = req.timeout, !.max_retries = req.max_retries]

CreateTaskRecord(id, req) ==
    LET t0 == NewTask(id, req.model_name, req.priority)
        t1 == IF req.timeout > 0 THEN [t0 EXCEPT !.timeout = req.timeout] ELSE t0
    IN  IF req.max_retries > 0 THEN [t1 EXCEPT !.max_retries = req.max_retries] ELSE t1

createTask ==
    /\ quota.tasks > 0
    /\ quota' = [quota EXCEPT !.tasks = @ - 1]
    /\ \E req \in CreateTaskRequests :
            /\ tasks' = tasks @@ (NewTaskId :> CreateTaskRecord(NewTaskId, req))
            /\ UNCHANGED <<memq, loopVars, mcp, now, workers, resources, schedVars, cancel, report>>

RegisterWorkerRecord(id, req) ==
    [NewWorker(id, req.capabilities) EXCEPT
        !.available_memory = req.available_memory,
        !.available_cpu = req.available_cpu,
        !.available_gpu = req.available_gpu]

registerWorker ==
    /\ quota.workers > 0
    /\ quota' = [quota EXCEPT !.workers = @ - 1]
    /\ \E req \in RegisterWorkerRequests :
            /\ workers' = workers @@ (NewWorkerId :> RegisterWorkerRecord(NewWorkerId, req))
            /\ UNCHANGED <<memq, loopVars, mcp, now, tasks, resources, schedVars, cancel, report>>

(* UPDATE workers SET last_heartbeat = $1 WHERE id = $2 *)
UpdateHeartbeat(table, id) ==
    IF id \in DOMAIN table THEN [table EXCEPT ![id].last_heartbeat = now] ELSE table

(* The error UpdateHeartbeat returns: ExecContext's, which is nil when the
   statement ran, whatever the number of rows it matched *)
UpdateHeartbeatErr(table, id, ok) == ~ok

(* workerHeartbeat's response: 404 on an error of UpdateHeartbeat, else 200 *)
HeartbeatReply(table, id, ok) ==
    IF UpdateHeartbeatErr(table, id, ok) THEN StatusNotFound ELSE StatusOK

workerHeartbeat ==
    \E id \in WorkerIds :
        /\ StoreCallOf(TRUE, 1)
        /\ workers' = UpdateHeartbeat(workers, id)
        /\ UNCHANGED <<memq, loopVars, mcp, now, tasks, resources, schedVars, cancel, report>>

----------------------------------------------------------------------------
(* Scheduler.processPendingTasks *)

(* A list from which nothing is removed *)
KeepAt(s, i) == s

RemoveAt(s, i) == SubSeq(s, 1, i - 1) \o SubSeq(s, i + 1, Len(s))

(* Where the pass performs its next store call, from task i and worker j on:
   the first worker that canWorkerHandleTask accepts, else the fallback branch
   when workers are left, else the next task; "idle" when the tasks are done. *)
(* A pass that holds every task it fetched: no worker is tried *)
SeekHeld(pt, aw, res, i, j) == [pc |-> "idle", ti |-> 0, wi |-> 0, fb |-> FALSE]

RECURSIVE Seek(_, _, _, _, _)
Seek(pt, aw, res, i, j) ==
    IF i > Len(pt) THEN [pc |-> "idle", ti |-> 0, wi |-> 0, fb |-> FALSE]
    ELSE IF j > Len(aw)
         THEN IF Len(aw) > 0
              THEN [pc |-> "assignTask", ti |-> i, wi |-> 1, fb |-> TRUE]
              ELSE Seek(pt, aw, res, i + 1, 1)
         ELSE IF canWorkerHandleTask(aw[j], pt[i], res)
              THEN [pc |-> "assignTask", ti |-> i, wi |-> j, fb |-> FALSE]
              ELSE Seek(pt, aw, res, i, j + 1)

(* continue: the next worker in the main loop, the next task in the fallback *)
Continue(pt, aw, res) ==
    IF fb THEN Seek(pt, aw, res, ti + 1, 1) ELSE Seek(pt, aw, res, ti, wi + 1)

GoTo(p, pt, aw) ==
    /\ spc' = p.pc
    /\ ti' = p.ti
    /\ wi' = p.wi
    /\ fb' = p.fb
    /\ pendingTasks' = IF p.pc = "idle" THEN << >> ELSE pt
    /\ availableWorkers' = IF p.pc = "idle" THEN << >> ELSE aw
    /\ sweep' = NoSweep
    /\ UNCHANGED runningTasks

Return == GoTo([pc |-> "idle", ti |-> 0, wi |-> 0, fb |-> FALSE], << >>, << >>)

processPendingTasks ==
    /\ LoopRunning
    /\ spc = "idle"
    /\ \E ok \in BOOLEAN, pt \in GetPendingTasks(MaxTasks) :
        /\ StoreCall(ok)
        /\ IF ok /\ Len(pt) > 0
           THEN /\ spc' = "listWorkers"
                /\ pendingTasks' = pt
                /\ UNCHANGED <<availableWorkers, runningTasks, ti, wi, fb, sweep>>
           ELSE Return
    /\ UNCHANGED <<memq, loopVars, mcp, now, tasks, workers, resources, cancel, report>>

AssignListWorkers ==
    /\ spc = "listWorkers"
    /\ \E ok \in BOOLEAN, aw \in ListAvailable :
        /\ StoreCall(ok)
        /\ IF ok /\ Len(aw) > 0
           THEN GoTo(Seek(pendingTasks, aw, resources, 1, 1), pendingTasks, aw)
           ELSE Return
    /\ UNCHANGED <<memq, loopVars, mcp, now, tasks, workers, resources, cancel, report>>

(* task.Status = scheduled; task.WorkerID = &worker.ID; taskRepo.Update *)
AssignTaskWrite ==
    /\ spc = "assignTask"
    /\ LET task == [pendingTasks[ti] EXCEPT !.status = TaskStatusScheduled,
                                            !.worker_id = availableWorkers[wi].id]
           pt == [pendingTasks EXCEPT ![ti] = task]
       IN \E ok \in BOOLEAN :
            /\ StoreCall(ok)
            /\ IF ok
               THEN /\ tasks' = TaskRepoUpdate(tasks, task)
                    /\ spc' = "assignWorker"
                    /\ pendingTasks' = pt
                    /\ UNCHANGED <<availableWorkers, runningTasks, ti, wi, fb, sweep>>
               ELSE /\ UNCHANGED tasks
                    /\ GoTo(Continue(pt, availableWorkers, resources), pt, availableWorkers)
    /\ UNCHANGED <<memq, loopVars, mcp, now, workers, resources, cancel, report>>

(* worker.Status = "busy"; worker.CurrentTaskID = &task.ID;
   updateWorkerResources; workerRepo.Update *)
AssignWorkerWrite ==
    /\ spc = "assignWorker"
    /\ LET task == pendingTasks[ti]
           worker == updateWorkerResources(
                        [availableWorkers[wi] EXCEPT !.status = "busy",
                                                     !.current_task_id = task.id], task)
           aw == [availableWorkers EXCEPT ![wi] = worker]
           res == WorkerResourcesUpdate(Required(task.model_name).cpu,
                                        Required(task.model_name).mem,
                                        Required(task.model_name).gpu)
       IN /\ resources' = res
          /\ \E ok \in BOOLEAN :
            /\ StoreCall(ok)
            /\ IF ok
               THEN /\ workers' = WorkerRepoUpdate(workers, worker)
                    /\ GoTo(Seek(pendingTasks, RemoveAt(aw, wi), res, ti + 1, 1),
                            pendingTasks, RemoveAt(aw, wi))
               ELSE /\ UNCHANGED workers
                    /\ spc' = "assignRevert"
                    /\ availableWorkers' = aw
                    /\ UNCHANGED <<pendingTasks, runningTasks, ti, wi, fb, sweep>>
    /\ UNCHANGED <<memq, loopVars, mcp, now, tasks, cancel, report>>

(* Only the status is put back; the task keeps naming the worker *)
RevertedStatus(task) == [task EXCEPT !.status = TaskStatusPending]

(* task.Status = models.TaskStatusPending; task.WorkerID = nil *)
RevertedTask(task) == [task EXCEPT !.status = TaskStatusPending, !.worker_id = Nil]

(* Revert task status if worker update fails *)
AssignRevert ==
    /\ spc = "assignRevert"
    /\ LET task == RevertedTask(pendingTasks[ti])
           pt == [pendingTasks EXCEPT ![ti] = task]
       IN \E ok \in BOOLEAN :
            /\ StoreCall(ok)
            /\ tasks' = IF ok THEN TaskRepoUpdate(tasks, task) ELSE tasks
            /\ GoTo(Continue(pt, availableWorkers, resources), pt, availableWorkers)
    /\ UNCHANGED <<memq, loopVars, mcp, now, workers, resources, cancel, report>>

----------------------------------------------------------------------------
(* Scheduler.checkTaskTimeouts *)

(* SELECT * FROM tasks WHERE status = $1 ORDER BY priority DESC, created_at ASC
   LIMIT $2 OFFSET $3 *)
TaskRepoList(status, limit) ==
    { Limit(s, limit) :
        s \in Orderings({tasks[t] : t \in {x \in DOMAIN tasks :
                            tasks[x].status = status}}, TaskBefore) }

TimedOut(task, at) ==
    /\ task.started_at # NoTime
    /\ at - task.started_at > TaskTimeout

(* the next running task of the list, from i on, that has timed out *)
RECURSIVE SeekTimeout(_, _, _)
SeekTimeout(rt, at, i) ==
    IF i > Len(rt) THEN [pc |-> "idle", ti |-> 0, wi |-> 0, fb |-> FALSE]
    ELSE IF TimedOut(rt[i], at)
         THEN [pc |-> "timeoutTask", ti |-> i, wi |-> 0, fb |-> FALSE]
         ELSE SeekTimeout(rt, at, i + 1)

SweepGoTo(p, rt, sw) ==
    /\ spc' = p.pc
    /\ ti' = p.ti
    /\ wi' = p.wi
    /\ fb' = p.fb
    /\ runningTasks' = IF p.pc = "idle" THEN << >> ELSE rt
    /\ sweep' = IF p.pc = "idle" THEN NoSweep ELSE sw
    /\ UNCHANGED <<pendingTasks, availableWorkers>>

checkTaskTimeouts ==
    /\ LoopRunning
    /\ spc = "idle"
    /\ \E ok \in BOOLEAN, rt \in TaskRepoList(TaskStatusRunning, ListLimit) :
        /\ StoreCall(ok)
        /\ IF ok
           THEN SweepGoTo(SeekTimeout(rt, now, 1), rt, [now |-> now, worker |-> NoRecord])
           ELSE SweepGoTo(SeekTimeout(<< >>, now, 1), << >>, NoSweep)
    /\ UNCHANGED <<memq, loopVars, mcp, now, tasks, workers, resources, cancel, report>>

(* task.Status = failed; task.Error = "Task timed out"; taskRepo.Update *)
TimeoutTaskWrite ==
    /\ spc = "timeoutTask"
    /\ LET task == [runningTasks[ti] EXCEPT !.status = TaskStatusFailed,
                                            !.error = "Task timed out"]
           rt == [runningTasks EXCEPT ![ti] = task]
       IN \E ok \in BOOLEAN :
            /\ StoreCall(ok)
            /\ IF ok
               THEN /\ tasks' = TaskRepoUpdate(tasks, task)
                    /\ IF task.worker_id # Nil
                       THEN /\ spc' = "timeoutGetWorker"
                            /\ runningTasks' = rt
                            /\ UNCHANGED <<pendingTasks, availableWorkers, ti, wi, fb, sweep>>
                       ELSE SweepGoTo(SeekTimeout(rt, sweep.now, ti + 1), rt, sweep)
               ELSE /\ UNCHANGED tasks
                    /\ SweepGoTo(SeekTimeout(rt, sweep.now, ti + 1), rt, sweep)
    /\ UNCHANGED <<memq, loopVars, mcp, now, workers, resources, cancel, report>>

(* worker, err := workerRepo.GetByID; worker.Status = "available";
   worker.CurrentTaskID = nil *)
TimeoutGetWorker ==
    /\ spc = "timeoutGetWorker"
    /\ \E ok \in BOOLEAN :
        /\ StoreCall(ok)
        /\ IF ok /\ runningTasks[ti].worker_id \in DOMAIN workers
           THEN /\ spc' = "timeoutWorker"
                /\ sweep' = [sweep EXCEPT !.worker =
                                [workers[runningTasks[ti].worker_id] EXCEPT
                                    !.status = "available", !.current_task_id = Nil]]
                /\ UNCHANGED <<pendingTasks, availableWorkers, runningTasks, ti, wi, fb>>
           ELSE SweepGoTo(SeekTimeout(runningTasks, sweep.now, ti + 1), runningTasks, sweep)
    /\ UNCHANGED <<memq, loopVars, mcp, now, tasks, workers, resources, cancel, report>>

TimeoutWorkerWrite ==
    /\ spc = "timeoutWorker"
    /\ \E ok \in BOOLEAN :
        /\ StoreCall(ok)
        /\ workers' = IF ok THEN WorkerRepoUpdate(workers, sweep.worker) ELSE workers
        /\ SweepGoTo(SeekTimeout(runningTasks, sweep.now, ti + 1), runningTasks,
                     [sweep EXCEPT !.worker = NoRecord])
    /\ UNCHANGED <<memq, loopVars, mcp, now, tasks, resources, cancel, report>>

----------------------------------------------------------------------------
(* Scheduler.handleFailedWorkers *)

(* the next worker of the list, from i on, whose heartbeat is before the threshold *)
RECURSIVE SeekStale(_, _, _)
SeekStale(aw, threshold, i) ==
    IF i > Len(aw) THEN [pc |-> "idle", ti |-> 0, wi |-> 0, fb |-> FALSE]
    ELSE IF aw[i].last_heartbeat < threshold
         THEN [pc |-> "livenessWorker", ti |-> 0, wi |-> i, fb |-> FALSE]
         ELSE SeekStale(aw, threshold, i + 1)

LivenessGoTo(p, aw, sw) ==
    /\ spc' = p.pc
    /\ ti' = p.ti
    /\ wi' = p.wi
    /\ fb' = p.fb
    /\ availableWorkers' = IF p.pc = "idle" THEN << >> ELSE aw
    /\ sweep' = IF p.pc = "idle" THEN NoSweep ELSE sw
    /\ UNCHANGED <<pendingTasks, runningTasks>>

handleFailedWorkers ==
    /\ LoopRunning
    /\ spc = "idle"
    /\ \E ok \in BOOLEAN, aw \in ListAvailable :
        /\ StoreCall(ok)
        /\ IF ok
           THEN LivenessGoTo([pc |-> "livenessThreshold", ti |-> 0, wi |-> 0, fb |-> FALSE],
                             aw, NoSweep)
           ELSE LivenessGoTo(SeekStale(<< >>, 0, 1), << >>, NoSweep)
    /\ UNCHANGED <<memq, loopVars, mcp, now, tasks, workers, resources, cancel, report>>

(* heartbeatThreshold := time.Now().Add(-2 * s.config.HeartbeatInterval) *)
LivenessThreshold ==
    /\ spc = "livenessThreshold"
    /\ LivenessGoTo(SeekStale(availableWorkers, now - TwiceHeartbeatInterval, 1),
                    availableWorkers, [threshold |-> now - TwiceHeartbeatInterval])
    /\ UNCHANGED <<memq, loopVars, mcp, now, tasks, workers, resources, cancel, report, quota>>

(* the task of a lost worker: retried while under max retries, else failed *)
OrphanPolicy(task) ==
    IF task.retry_count < task.max_retries
    THEN [task EXCEPT !.status = TaskStatusPending, !.worker_id = Nil,
                      !.retry_count = @ + 1]
    ELSE [task EXCEPT !.status = TaskStatusFailed,
                      !.error = "Task failed after maximum retry attempts"]

(* worker.CurrentTaskID = nil with the status kept *)
WorkerReleased(w) == [w EXCEPT !.current_task_id = Nil]

(* worker.Status = "offline"; worker.CurrentTaskID = nil *)
WorkerOffline(w) == [w EXCEPT !.status = "offline", !.current_task_id = Nil]

(* One stale worker of the list: its task, when the record names one, goes
   through OrphanPolicy; the worker is written offline with no task.  A record
   that ListAvailable returned names no task. *)
LivenessWorker ==
    /\ spc = "livenessWorker"
    /\ LET w == availableWorkers[wi]
           worker == WorkerOffline(w)
       IN \E ok \in BOOLEAN :
            /\ StoreCall(ok)
            /\ tasks' = IF w.current_task_id # Nil /\ w.current_task_id \in DOMAIN tasks
                        THEN TaskRepoUpdate(tasks, OrphanPolicy(tasks[w.current_task_id]))
                        ELSE tasks
            /\ workers' = IF ok THEN WorkerRepoUpdate(workers, worker) ELSE workers
            /\ LivenessGoTo(SeekStale(availableWorkers, sweep.threshold, wi + 1),
                            availableWorkers, sweep)
    /\ UNCHANGED <<memq, loopVars, mcp, now, resources, cancel, report>>

(* the workers a pass that lists at listAt and takes its threshold at
   thresholdAt writes: listed, and last heartbeat before the threshold *)
StaleListed(table, listAt, thresholdAt) ==
    {w \in AvailableRows(table, listAt) :
        w.last_heartbeat < thresholdAt - TwiceHeartbeatInterval}

(* handleFailedWorkers run alone from the store S = [tasks, workers], every
   store call answering: the store it leaves *)
LivenessRun(S, listAt, thresholdAt) ==
    LET stale == StaleListed(S.workers, listAt, thresholdAt)
    IN  [tasks |-> [t \in DOMAIN S.tasks |->
                      IF \E w \in stale : w.current_task_id = t
                      THEN OrphanPolicy(S.tasks[t]) ELSE S.tasks[t]],
         workers |-> [id \in DOMAIN S.workers |->
                      IF S.workers[id] \in stale
                      THEN WorkerOffline(S.workers[id]) ELSE S.workers[id]]]

----------------------------------------------------------------------------
(* Server.cancelTask: DELETE /tasks/{id} *)

(* A laxer rule: any task that has not ended may be cancelled *)
NotEnded(task) == task.status \notin Terminal

(* task.Status != TaskStatusPending && task.Status != TaskStatusScheduled
   is rejected with 400 *)
Cancellable(task) == task.status \in {TaskStatusPending, TaskStatusScheduled}

(* The handler run without any other request or pass in between: the
   response (ok: 200 with the task, otherwise 400) and the task table *)
CancelOutcome(table, id) ==
    IF Cancellable(table[id])
    THEN [ok |-> TRUE,
          tasks |-> TaskRepoUpdate(table, [table[id] EXCEPT !.status = TaskStatusCancelled])]
    ELSE [ok |-> FALSE, tasks |-> table]

cancelTask ==
    /\ cancel = Idle
    /\ \E id \in DOMAIN tasks, ok \in BOOLEAN :
        /\ StoreCallOf(ok, 1)
        /\ cancel' = IF ok /\ Cancellable(tasks[id])
                     THEN [pc |-> "write",
                           task |-> [tasks[id] EXCEPT !.status = TaskStatusCancelled]]
                     ELSE Idle
    /\ UNCHANGED <<memq, loopVars, mcp, now, tasks, workers, resources, schedVars, report>>

CancelWrite ==
    /\ cancel.pc = "write"
    /\ \E ok \in BOOLEAN :
        /\ StoreCall(ok)
        /\ tasks' = IF ok THEN TaskRepoUpdate(tasks, cancel.task) ELSE tasks
    /\ cancel' = Idle
    /\ UNCHANGED <<memq, loopVars, mcp, now, workers, resources, schedVars, report>>

----------------------------------------------------------------------------
(* Server.updateWorkerStatus: PUT /workers/{id}/status *)

(* The UpdateWorkerStatusRequest bodies a worker sends about task t:
   idle, task running, task completed with output, task failed with error *)
StatusRequests(t) ==
    { [status |-> "available", current_task_id |-> Nil, task_status |-> "",
       task_output |-> Nil, task_error |-> ""],
      [status |-> "busy", current_task_id |-> t, task_status |-> TaskStatusRunning,
       task_output |-> Nil, task_error |-> ""],
      [status |-> "busy", current_task_id |-> t, task_status |-> TaskStatusCompleted,
       task_output |-> "ok", task_error |-> ""],
      [status |-> "busy", current_task_id |-> t, task_status |-> TaskStatusFailed,
       task_output |-> Nil, task_error |-> "boom"] }

(* A worker's status requests repeat the resources it registered with *)
Advertised(worker) ==
    CHOOSE r \in RegisterWorkerRequests : r.capabilities = worker.capabilities

(* worker.Status = req.Status ... worker.AvailableGPU = req.AvailableGPU *)
ApplyStatusRequest(worker, req, adv) ==
    [worker EXCEPT !.status = req.status, !.current_task_id = req.current_task_id,
                   !.last_heartbeat = now,
                   !.available_memory = adv.available_memory,
                   !.available_cpu = adv.available_cpu,
                   !.available_gpu = adv.available_gpu]

(* the task record updateTaskStatus writes *)
updateTaskStatus(task, req) ==
    LET t1 == [task EXCEPT !.status = req.task_status]
        t2 == IF req.task_status = TaskStatusRunning /\ task.started_at = NoTime
              THEN [t1 EXCEPT !.started_at = now] ELSE t1
        t3 == IF req.task_status \in {TaskStatusCompleted, TaskStatusFailed}
              THEN [t2 EXCEPT !.completed_at = now,
                              !.output = IF req.task_output # Nil THEN req.task_output ELSE @,
                              !.error = IF req.task_error # "" THEN req.task_error ELSE @]
              ELSE t2
    IN  t3

(* Only the count of handled tasks moves; the worker keeps what it reported *)
WorkerCounted(worker) == [worker EXCEPT !.total_tasks_handled = @ + 1]

(* the worker record after a terminal task status *)
WorkerAfterOutcome(worker) ==
    [worker EXCEPT !.total_tasks_handled = @ + 1, !.current_task_id = Nil,
                   !.status = "available"]

updateWorkerStatus ==
    /\ report = Idle
    /\ \E id \in DOMAIN workers, t \in DOMAIN tasks, ok \in BOOLEAN :
        \E req \in StatusRequests(t) :
            /\ StoreCallOf(ok, 1)
            /\ report' = IF ok
                         THEN [pc |-> "worker", req |-> req, task |-> NoRecord,
                               worker |-> ApplyStatusRequest(workers[id], req,
                                                             Advertised(workers[id]))]
                         ELSE Idle
    /\ UNCHANGED <<memq, loopVars, mcp, now, tasks, workers, resources, schedVars, cancel>>

(* Update worker in database *)
StatusWorkerWrite ==
    /\ report.pc = "worker"
    /\ \E ok \in BOOLEAN :
        /\ StoreCall(ok)
        /\ workers' = IF ok THEN WorkerRepoUpdate(workers, report.worker) ELSE workers
        /\ report' = IF ok /\ report.req.task_status # ""
                            /\ report.worker.current_task_id # Nil
                     THEN [report EXCEPT !.pc = "getTask"]
                     ELSE Idle
    /\ UNCHANGED <<memq, loopVars, mcp, now, tasks, resources, schedVars, cancel>>

(* updateTaskStatus: task, err := s.taskRepo.GetByID(ctx, taskID) *)
StatusGetTask ==
    /\ report.pc = "getTask"
    /\ \E ok \in BOOLEAN :
        /\ StoreCall(ok)
        /\ report' = IF ok /\ report.worker.current_task_id \in DOMAIN tasks
                     THEN [report EXCEPT !.pc = "task",
                             !.task = updateTaskStatus(tasks[report.worker.current_task_id],
                                                       report.req)]
                     ELSE Idle
    /\ UNCHANGED <<memq, loopVars, mcp, now, tasks, workers, resources, schedVars, cancel>>

(* updateTaskStatus: return s.taskRepo.Update(ctx, task) *)
StatusTaskWrite ==
    /\ report.pc = "task"
    /\ \E ok \in BOOLEAN :
        /\ StoreCall(ok)
        /\ tasks' = IF ok THEN TaskRepoUpdate(tasks, report.task) ELSE tasks
        /\ report' = IF ok /\ report.req.task_status \in {TaskStatusCompleted, TaskStatusFailed}
                     THEN [report EXCEPT !.pc = "stats", !.task = NoRecord,
                                         !.worker = WorkerAfterOutcome(@)]
                     ELSE Idle
    /\ UNCHANGED <<memq, loopVars, mcp, now, workers, resources, schedVars, cancel>>

(* Increment task count if task is completed: workerRepo.Update *)
StatusStatsWrite ==
    /\ report.pc = "stats"
    /\ \E ok \in BOOLEAN :
        /\ StoreCall(ok)
        /\ workers' = IF ok THEN WorkerRepoUpdate(workers, report.worker) ELSE workers
    /\ report' = Idle
    /\ UNCHANGED <<memq, loopVars, mcp, now, tasks, resources, schedVars, cancel>>

(* updateWorkerStatus run alone from the store S = [tasks, workers], every
   store call answering: the store it leaves *)
DeliverStatus(S, id, req) ==
    LET worker == ApplyStatusRequest(S.workers[id], req, Advertised(S.workers[id]))
        workers1 == WorkerRepoUpdate(S.workers, worker)
        tid == worker.current_task_id
    IN  IF req.task_status # "" /\ tid # Nil /\ tid \in DOMAIN S.tasks
        THEN [tasks |-> TaskRepoUpdate(S.tasks, updateTaskStatus(S.tasks[tid], req)),
              workers |-> IF req.task_status \in {TaskStatusCompleted, TaskStatusFailed}
                          THEN WorkerRepoUpdate(workers1, WorkerAfterOutcome(worker))
                          ELSE workers1]
        ELSE [tasks |-> S.tasks, workers |-> workers1]

----------------------------------------------------------------------------
(* MCPWorker.ProcessTask *)

MCPTaskTypes ==
    {"create_context", "add_prompt", "add_node", "delete_node", "delete_context"}

(* The tasks ProcessTask is called with: every supported type and one that
   is not, scheduled (as the scheduler hands them over) or still pending *)
MCPTasks ==
    { [type |-> ty, status |-> st, context_id |-> Nil, output |-> Nil, error |-> "",
       started_at |-> NoTime, completed_at |-> NoTime] :
        ty \in MCPTaskTypes \cup {"summarize"},
        st \in {TaskStatusScheduled, TaskStatusPending} }

(* What a type handler returns: the marshalled response, or one of its
   errors; handleCreateContext has set task.ContextID once the MCP server
   answered *)
HandlerResults(type) ==
    IF type = "create_context"
    THEN { [output |-> "response", err |-> Nil, context_id |-> "ctx"],
           [output |-> Nil, err |-> "failed to unmarshal input", context_id |-> Nil],
           [output |-> Nil, err |-> "failed to create context", context_id |-> Nil],
           [output |-> Nil, err |-> "failed to store context data", context_id |-> "ctx"] }
    ELSE IF type \in MCPTaskTypes
    THEN { [output |-> "response", err |-> Nil, context_id |-> Nil],
           [output |-> Nil, err |-> "failed to unmarshal input", context_id |-> Nil],
           [output |-> Nil, err |-> "failed to call the MCP server", context_id |-> Nil] }
    ELSE { [output |-> Nil, err |-> "unsupported MCP task type", context_id |-> Nil] }

(* UPDATE mcp_tasks SET ... WHERE id = :id: the row after the update *)
MCPTaskRepoUpdate(row, task) ==
    [row EXCEPT !.type = task.type, !.status = task.status,
                !.context_id = task.context_id, !.output = task.output,
                !.error = task.error, !.started_at = task.started_at,
                !.completed_at = task.completed_at]

(* Every handled task is called completed *)
ResultCompleted(task, r) ==
    [task EXCEPT !.status = TaskStatusCompleted, !.output = r.output]

(* Update task status based on result *)
ApplyResult(task, r) ==
    IF r.err # Nil
    THEN [task EXCEPT !.status = TaskStatusFailed, !.error = r.err,
                      !.context_id = IF r.context_id # Nil THEN r.context_id ELSE @]
    ELSE [task EXCEPT !.status = TaskStatusCompleted, !.output = r.output,
                      !.context_id = IF r.context_id # Nil THEN r.context_id ELSE @]

(* ProcessTask is called: the task is set running with started_at and
   written; a failed write ends the call *)
ProcessTask ==
    /\ mcp = NoCall
    /\ \E row \in MCPTasks, ok \in BOOLEAN :
        LET task == [row EXCEPT !.status = TaskStatusRunning, !.started_at = now]
        IN  /\ StoreCall(ok)
            /\ mcp' = IF ok
                      THEN [pc |-> "handle", task |-> task,
                            row |-> MCPTaskRepoUpdate(row, task), result |-> NoRecord,
                            ret |-> Nil]
                      ELSE [pc |-> "returned", task |-> task, row |-> row,
                            result |-> NoRecord, ret |-> "failed to update task status"]
    /\ UNCHANGED <<memq, loopVars, now, tasks, workers, resources, schedVars, cancel, report>>

(* the switch on task.Type and the result taken into the task;
   task.CompletedAt = timePtr(time.Now()) *)
ProcessTaskHandle ==
    /\ mcp.pc = "handle"
    /\ \E r \in HandlerResults(mcp.task.type) :
        mcp' = [mcp EXCEPT !.pc = "update", !.result = r,
                           !.task = [ApplyResult(mcp.task, r) EXCEPT !.completed_at = now]]
    /\ UNCHANGED <<memq, loopVars, now, tasks, workers, resources, schedVars, cancel, report, quota>>

(* the second mcpTaskRepo.Update and the return *)
ProcessTaskUpdate ==
    /\ mcp.pc = "update"
    /\ \E ok \in BOOLEAN :
        /\ StoreCall(ok)
        /\ mcp' = IF ok
                  THEN [mcp EXCEPT !.pc = "returned",
                                   !.row = MCPTaskRepoUpdate(mcp.row, mcp.task),
                                   !.ret = mcp.result.err]
                  ELSE [mcp EXCEPT !.pc = "returned", !.ret = "failed to update task status"]
    /\ UNCHANGED <<memq, loopVars, now, tasks, workers, resources, schedVars, cancel, report>>

----------------------------------------------------------------------------
(* Ingress requests and the wall clock *)
Ingress ==
    \/ Tick
    \/ createTask
    \/ registerWorker
    \/ workerHeartbeat
    \/ cancelTask
    \/ CancelWrite
    \/ updateWorkerStatus
    \/ StatusWorkerWrite
    \/ StatusGetTask
    \/ StatusTaskWrite
    \/ StatusStatsWrite

(* An assignment pass, the one pass schedulingLoop runs on its ticker *)
AssignmentPass ==
    \/ processPendingTasks
    \/ AssignListWorkers
    \/ AssignTaskWrite
    \/ AssignWorkerWrite

TimeoutPass ==
    \/ checkTaskTimeouts
    \/ TimeoutTaskWrite
    \/ TimeoutGetWorker
    \/ TimeoutWorkerWrite

LivenessPass ==
    \/ handleFailedWorkers
    \/ LivenessThreshold
    \/ LivenessWorker

(* The server as cmd/server wires it: the API handlers and schedulingLoop,
   whose ticker runs processPendingTasks and no other pass *)
Next == Ingress \/ AssignmentPass

Spec == Init /\ [][Next]_vars

SpecTwoWorkers == InitTwoWorkers /\ [][Next]_vars

(* Tasks queue up, workers register, and schedulingLoop runs its pass *)
NextQueue == Tick \/ createTask \/ registerWorker \/ AssignmentPass

SpecQueue == InitQueue /\ [][NextQueue]_vars

(* The scheduler with its three passes: checkTaskTimeouts and
   handleFailedWorkers are run as well, one pass at a time *)
NextPasses == Next \/ TimeoutPass \/ LivenessPass

SpecPasses == Init /\ [][NextPasses]_vars

SpecRace == InitRace /\ [][NextPasses]_vars

(* A queue longer than a batch and one worker, with the loop's ticker firing
   again and again: the clock advances and the assignment pass is run again
   and again *)
FairQueue ==
    /\ InitBatch /\ [][NextQueue]_vars
    /\ WF_vars(Tick)
    /\ WF_vars(AssignmentPass)

(* The server as wired, with its shutdown: main calls Stop on a signal *)
Shutdown ==
    \/ Stop
    \/ LoopReturn
    \/ StopReturn

NextStop == Next \/ Shutdown

SpecStop == Init /\ [][NextStop]_vars

(* The server stopped and started again over the same database *)
NextRestart == NextStop \/ Restart

SpecRestart == Init /\ [][NextRestart]_vars

(* Scenario S1 and its repetitions: tasks are created, workers register, the
   assignment pass runs and workers report; nobody cancels and no sweep runs *)
NextReports ==
    \/ Tick
    \/ createTask
    \/ registerWorker
    \/ AssignmentPass
    \/ updateWorkerStatus
    \/ StatusWorkerWrite
    \/ StatusGetTask
    \/ StatusTaskWrite
    \/ StatusStatsWrite

SpecReports == InitRace /\ [][NextReports]_vars

(* Every pass is run again and again, the clock advances, and a handler in
   flight runs to its end *)
FairPasses ==
    /\ SpecPasses
    /\ WF_vars(Tick)
    /\ WF_vars(AssignmentPass)
    /\ WF_vars(TimeoutPass)
    /\ WF_vars(LivenessPass)
    /\ WF_vars(CancelWrite)
    /\ WF_vars(StatusWorkerWrite \/ StatusGetTask \/ StatusTaskWrite \/ StatusStatsWrite)

(* The server as wired, its ticker firing again and again: the clock
   advances, the pass the loop runs is run again and again, and a handler in
   flight runs to its end *)
FairWired ==
    /\ Spec
    /\ WF_vars(Tick)
    /\ WF_vars(AssignmentPass)
    /\ WF_vars(CancelWrite)
    /\ WF_vars(StatusWorkerWrite \/ StatusGetTask \/ StatusTaskWrite \/ StatusStatsWrite)

(* The three passes over a store whose calls may fail *)
NextFaulty == NextPasses \/ AssignRevert

SpecFaulty == InitFaulty /\ [][NextFaulty]_vars

(* The three passes run again and again over a store whose calls may fail *)
FairFaulty ==
    /\ InitRevert /\ [][NextFaulty]_vars
    /\ WF_vars(Tick)
    /\ WF_vars(AssignmentPass \/ AssignRevert)
    /\ WF_vars(TimeoutPass)
    /\ WF_vars(LivenessPass)
    /\ WF_vars(CancelWrite)
    /\ WF_vars(StatusWorkerWrite \/ StatusGetTask \/ StatusTaskWrite \/ StatusStatsWrite)

(* Assignment passes alone over a store whose calls may fail: tasks are
   created and workers register, no other request arrives *)
NextCompensate ==
    \/ Tick
    \/ createTask
    \/ registerWorker
    \/ AssignmentPass
    \/ AssignRevert

SpecCompensate == InitFaulty /\ [][NextCompensate]_vars

(* Assignment passes over a batch of tasks and a store whose calls may fail *)
SpecRetry == InitRetry /\ [][NextCompensate]_vars

(* One caller of a MemoryQueue *)
NextMemoryQueue ==
    \/ MemoryQueuePush
    \/ MemoryQueuePop
    \/ MemoryQueueDelete

SpecMemoryQueue == Init /\ [][NextMemoryQueue]_vars

(* An MCP worker processing one task over a store whose calls may fail *)
NextMCP ==
    \/ Tick
    \/ ProcessTask
    \/ ProcessTaskHandle
    \/ ProcessTaskUpdate

SpecMCP == InitFaulty /\ [][NextMCP]_vars

----------------------------------------------------------------------------
(* Properties *)

Active == {TaskStatusScheduled, TaskStatusRunning}

Holders(t) == {w \in DOMAIN workers : workers[w].current_task_id = t}

(* C1: no double-dispatch: at most one worker has current_task_id = T *)
C1_NoDoubleDispatch ==
    \A t \in DOMAIN tasks : Cardinality(Holders(t)) <= 1

(* C2: exclusive assignment: a worker's current_task_id names a task that is
   scheduled or running and whose worker_id is that worker *)
C2_ExclusiveAssignment ==
    \A w \in DOMAIN workers :
        workers[w].current_task_id # Nil =>
            /\ workers[w].current_task_id \in DOMAIN tasks
            /\ tasks[workers[w].current_task_id].worker_id = w
            /\ tasks[workers[w].current_task_id].status \in Active

(* C3: terminal monotonicity: no step changes the status of a task that is
   completed, failed or cancelled *)
C3_TerminalMonotonicity ==
    [][\A t \in DOMAIN tasks :
          tasks[t].status \in Terminal => tasks'[t].status = tasks[t].status]_vars

(* the worker has stopped: it holds t, its last heartbeat is past the
   liveness threshold, and no request is in flight or will come *)
Crashed(w, t) ==
    /\ w \in DOMAIN workers /\ t \in DOMAIN tasks
    /\ workers[w].current_task_id = t
    /\ tasks[t].worker_id = w
    /\ tasks[t].status \in Active
    /\ workers[w].last_heartbeat < now - TwiceHeartbeatInterval
    /\ quota.reqs = 0 /\ report = Idle /\ cancel = Idle

(* C4: no task is lost on worker crash: when a worker holding task T stops
   sending heartbeats forever and the scheduler keeps running, T eventually
   leaves {scheduled, running} *)
C4_NoTaskLost ==
    \A w \in WorkerIds : \A t \in TaskIds :
        Crashed(w, t) ~> (t \in DOMAIN tasks /\ tasks[t].status \notin Active)

(* C5: retry budget: retry_count <= max_retries for every task in every
   reachable state *)
C5_RetryBudget ==
    \A t \in DOMAIN tasks : tasks[t].retry_count <= tasks[t].max_retries

(* a task created with its own budget of one retry was assigned, ran past
   the task timeout and was failed by the sweep, its worker released *)
C5_Witness ==
    \E t \in DOMAIN tasks :
        /\ tasks[t].status = TaskStatusFailed
        /\ tasks[t].error = "Task timed out"
        /\ tasks[t].max_retries = 1
        /\ tasks[t].retry_count = 0
        /\ tasks[t].worker_id \in DOMAIN workers
        /\ workers[tasks[t].worker_id].current_task_id = Nil

Held(w) ==
    {t \in DOMAIN tasks : tasks[t].worker_id = w /\ tasks[t].status \in Active}

RECURSIVE SumRequired(_, _)
SumRequired(T, dim) ==
    IF T = {} THEN 0
    ELSE LET t == CHOOSE x \in T : TRUE
         IN  Required(tasks[t].model_name)[dim] + SumRequired(T \ {t}, dim)

(* C6: resource conservation: for every worker W the requirements of the
   tasks with worker_id = W that are scheduled or running sum to at most
   what W advertised, on CPU, memory and GPU *)
C6_ResourceConservation ==
    \A w \in DOMAIN workers :
        /\ SumRequired(Held(w), "cpu") <= Advertised(workers[w]).available_cpu
        /\ SumRequired(Held(w), "mem") * MiBPerGB <= Advertised(workers[w]).available_memory
        /\ SumRequired(Held(w), "gpu") <= Advertised(workers[w]).available_gpu

(* a comes no later than b in (priority DESC, created_at ASC) *)
NotAfter(a, b) ==
    \/ a.priority > b.priority
    \/ a.priority = b.priority /\ a.created_at <= b.created_at

PendingIds == {t \in DOMAIN tasks : tasks[t].status = TaskStatusPending}

(* C7: priority-FIFO: the tasks an assignment pass fetches are the first
   MaxTasks pending tasks in (priority DESC, created_at ASC) order, and the
   pass assigns them in that order: when it assigns a task, every fetched task
   of higher priority, or of the same priority and earlier created_at, has
   been assigned already, so with one available worker the task assigned is
   the first in the order *)
C7_PriorityFIFO ==
    [][ /\ (spc = "idle" /\ spc' = "listWorkers") =>
             /\ \A i, j \in 1..Len(pendingTasks') :
                    i < j => NotAfter(pendingTasks'[i], pendingTasks'[j])
             /\ \A t \in PendingIds :
                    \/ \E i \in 1..Len(pendingTasks') : pendingTasks'[i].id = t
                    \/ /\ Len(pendingTasks') = MaxTasks
                       /\ \A i \in 1..Len(pendingTasks') :
                             NotAfter(pendingTasks'[i], tasks[t])
        /\ \A t \in DOMAIN tasks :
             ( /\ spc = "assignTask"
               /\ tasks[t].status = TaskStatusPending
               /\ tasks'[t].status = TaskStatusScheduled ) =>
                 \A i \in 1..Len(pendingTasks) :
                    \/ NotAfter(tasks[t], pendingTasks[i])
                    \/ pendingTasks[i].status = TaskStatusScheduled
      ]_vars

(* the pass fetched two pending tasks, found one worker, and has just given
   it to the task of high priority, created later than the normal one still
   pending *)
C7_Witness ==
    /\ spc = "assignWorker"
    /\ Len(pendingTasks) = 2
    /\ Len(availableWorkers) = 1
    /\ \E t, u \in DOMAIN tasks :
        /\ tasks[t].status = TaskStatusScheduled
        /\ tasks[u].status = TaskStatusPending
        /\ tasks[t].priority > tasks[u].priority
        /\ tasks[u].created_at < tasks[t].created_at

(* C8: timeout race: a worker status report with task_status completed or
   failed, from the worker a task was assigned to, that finds the task
   already terminal leaves the task record unchanged *)
C8_TerminalReportDropped ==
    [][ ( /\ report.pc = "task"
          /\ report'.pc # "task"
          /\ report.req.task_status \in {TaskStatusCompleted, TaskStatusFailed}
          /\ tasks[report.task.id].status \in Terminal
          /\ tasks[report.task.id].worker_id = report.worker.id )
        => tasks'[report.task.id] = tasks[report.task.id] ]_vars

(* C9: report idempotence: the same terminal status report for task T from
   the worker W that holds it, delivered twice, leaves the task and worker
   records as one delivery does *)
C9_ReportIdempotence ==
    \A w \in DOMAIN workers : \A t \in DOMAIN tasks :
        (workers[w].current_task_id = t /\ tasks[t].worker_id = w
            /\ tasks[t].status \in Active) =>
          \A req \in {r \in StatusRequests(t) :
                        r.task_status \in {TaskStatusCompleted, TaskStatusFailed}} :
            LET once == DeliverStatus([tasks |-> tasks, workers |-> workers], w, req)
            IN  DeliverStatus(once, w, req) = once

(* a worker that is not offline, holds the task assigned to it, and whose
   last heartbeat is before the threshold *)
StaleHolder(w, threshold) ==
    /\ workers[w].status # "offline"
    /\ workers[w].current_task_id \in DOMAIN tasks
    /\ tasks[workers[w].current_task_id].worker_id = w
    /\ tasks[workers[w].current_task_id].status \in Active
    /\ workers[w].last_heartbeat < threshold

(* C10: orphan policy: a liveness pass takes up every worker W that is stale
   (last_heartbeat before now - 2 x heartbeat_interval) with current_task_id
   = T, sets T to pending with retry_count + 1 and worker_id nil when
   retry_count < max_retries, else to failed with the exhaustion error, and
   leaves W offline with current_task_id nil *)
C10_OrphanPolicy ==
    [][ /\ (spc = "livenessThreshold" /\ spc' # spc) =>
             \A w \in DOMAIN workers :
                StaleHolder(w, now - TwiceHeartbeatInterval) =>
                    \E i \in 1..Len(availableWorkers) : availableWorkers[i].id = w
        /\ (spc = "livenessWorker" /\ <<spc, wi>>' # <<spc, wi>>) =>
             LET w == availableWorkers[wi].id
                 t == availableWorkers[wi].current_task_id
             IN  /\ workers'[w].status = "offline"
                 /\ workers'[w].current_task_id = Nil
                 /\ t \in DOMAIN tasks =>
                      IF tasks[t].retry_count < tasks[t].max_retries
                      THEN /\ tasks'[t].status = TaskStatusPending
                           /\ tasks'[t].retry_count = tasks[t].retry_count + 1
                           /\ tasks'[t].worker_id = Nil
                      ELSE /\ tasks'[t].status = TaskStatusFailed
                           /\ tasks'[t].error = "Task failed after maximum retry attempts"
      ]_vars

(* C11: per-task timeout: a timeout sweep fails a running task with the
   timed-out error only when its started_at is set and the sweep's now minus
   started_at exceeds that task's own timeout *)
C11_PerTaskTimeout ==
    [][ ( /\ spc = "timeoutTask"
          /\ tasks[runningTasks[ti].id].error # "Task timed out"
          /\ tasks'[runningTasks[ti].id].error = "Task timed out" )
        => /\ runningTasks[ti].started_at # NoTime
           /\ sweep.now - runningTasks[ti].started_at > runningTasks[ti].timeout ]_vars

(* C12: P5: a worker whose stored heartbeat was stamped at time t is not
   marked offline by a liveness pass at a time t' < t + heartbeat_interval
   (2 t' < 2 t + 2 x heartbeat_interval / 1, written without halves) *)
C12_FreshWorkerKept ==
    [][ \A w \in DOMAIN workers :
          ( /\ spc = "livenessWorker"
            /\ workers[w].status # "offline"
            /\ workers'[w].status = "offline" )
          => 2 * now >= 2 * workers[w].last_heartbeat + TwiceHeartbeatInterval ]_vars

(* C13: liveness-monitor idempotence: after a liveness pass run alone, a
   second pass with the same clock readings and no activity in between finds
   no worker to write and leaves tasks and workers as the first pass left
   them; a worker already offline, and its former task, are not written
   again *)
C13_LivenessIdempotent ==
    \A thresholdAt \in now..MaxTime :
        LET S == [tasks |-> tasks, workers |-> workers]
            once == LivenessRun(S, now, thresholdAt)
        IN  /\ StaleListed(once.workers, now, thresholdAt) = {}
            /\ LivenessRun(once, now, thresholdAt) = once
            /\ \A w \in DOMAIN workers :
                 workers[w].status = "offline" => once.workers[w] = workers[w]

(* a pass has marked a worker offline, its heartbeat is still before the
   threshold, and the scheduler is between passes: the next pass meets it *)
C13_Witness ==
    /\ spc = "idle"
    /\ \E w \in DOMAIN workers :
        /\ workers[w].status = "offline"
        /\ workers[w].last_heartbeat < now - TwiceHeartbeatInterval

(* C14: held, never force-assigned: an assignment pass schedules a pending
   task only on a listed worker for which canWorkerHandleTask holds; a task
   that no listed worker fits stays pending with worker_id nil *)
C14_HeldNotForced ==
    [][ \A t \in DOMAIN tasks :
          ( /\ spc = "assignTask"
            /\ tasks[t].status = TaskStatusPending
            /\ tasks'[t].status = TaskStatusScheduled )
          => \E i \in 1..Len(availableWorkers) :
                /\ availableWorkers[i].id = tasks'[t].worker_id
                /\ canWorkerHandleTask(availableWorkers[i], pendingTasks[ti], resources)
      ]_vars

(* C15: capability match: a task with a non-empty model_name is never
   scheduled or running with worker_id = W unless W's capabilities contain
   that model_name *)
C15_CapabilityMatch ==
    \A t \in DOMAIN tasks :
        ( /\ tasks[t].status \in Active
          /\ tasks[t].worker_id \in DOMAIN workers
          /\ tasks[t].model_name # "" )
        => tasks[t].model_name \in workers[tasks[t].worker_id].capabilities

(* C16: cancel outcome: cancelling a task whose status is pending or
   scheduled succeeds and sets it to cancelled, touching no other task;
   cancelling a task in any other status is rejected and leaves the task
   table unchanged *)
C16_CancelOutcome ==
    \A t \in DOMAIN tasks :
        LET out == CancelOutcome(tasks, t)
        IN  IF tasks[t].status \in {TaskStatusPending, TaskStatusScheduled}
            THEN /\ out.ok
                 /\ out.tasks[t].status = TaskStatusCancelled
                 /\ \A u \in DOMAIN tasks \ {t} : out.tasks[u] = tasks[u]
            ELSE /\ ~out.ok
                 /\ out.tasks = tasks

C16_Witness ==
    /\ cancel = Idle
    /\ \E t \in DOMAIN tasks :
        /\ tasks[t].status = TaskStatusCancelled
        /\ CancelOutcome(tasks, t) = [ok |-> FALSE, tasks |-> tasks]

(* C17: cancel under interleaving: whatever runs between a cancel's read and
   its write, a task's stored status becomes cancelled only from pending or
   scheduled; a running task never becomes cancelled *)
C17_CancelOnlyFromWaiting ==
    [][ \A t \in DOMAIN tasks :
          ( /\ tasks[t].status # TaskStatusCancelled
            /\ tasks'[t].status = TaskStatusCancelled )
          => tasks[t].status \in {TaskStatusPending, TaskStatusScheduled} ]_vars

(* C18: lifecycle order: every change of a task's stored status is one of
   pending -> scheduled, scheduled -> running, running -> completed or failed,
   scheduled or running -> pending or failed, pending or scheduled -> cancelled;
   a new task is stored as pending and no other status value is written *)
LifecycleEdges ==
    { <<TaskStatusPending, TaskStatusScheduled>>,
      <<TaskStatusScheduled, TaskStatusRunning>>,
      <<TaskStatusRunning, TaskStatusCompleted>>,
      <<TaskStatusRunning, TaskStatusFailed>>,
      <<TaskStatusScheduled, TaskStatusPending>>,
      <<TaskStatusRunning, TaskStatusPending>>,
      <<TaskStatusScheduled, TaskStatusFailed>>,
      <<TaskStatusPending, TaskStatusCancelled>>,
      <<TaskStatusScheduled, TaskStatusCancelled>> }

C18_LifecycleOrder ==
    [][ \A t \in DOMAIN tasks' :
          IF t \in DOMAIN tasks
          THEN \/ tasks'[t].status = tasks[t].status
               \/ <<tasks[t].status, tasks'[t].status>> \in LifecycleEdges
          ELSE tasks'[t].status = TaskStatusPending ]_vars

(* C19: happy path (S1): once an assignment pass has paired task T with
   worker W (T scheduled on W, W busy with current_task_id = T), W's report
   of running leaves T running with started_at set, and W's later report of
   completed with an output leaves T completed with that output and
   completed_at set, and W available with current_task_id nil *)
ReportOf(t, status) ==
    CHOOSE req \in StatusRequests(t) : req.task_status = status

C19_HappyPath ==
    \A t \in DOMAIN tasks, w \in DOMAIN workers :
        ( /\ tasks[t].status = TaskStatusScheduled
          /\ tasks[t].worker_id = w
          /\ workers[w].status = "busy"
          /\ workers[w].current_task_id = t )
        => LET paired == [tasks |-> tasks, workers |-> workers]
               started == DeliverStatus(paired, w, ReportOf(t, TaskStatusRunning))
               done == DeliverStatus(started, w, ReportOf(t, TaskStatusCompleted))
           IN  /\ started.tasks[t].status = TaskStatusRunning
               /\ started.tasks[t].started_at # NoTime
               /\ done.tasks[t].status = TaskStatusCompleted
               /\ done.tasks[t].output = ReportOf(t, TaskStatusCompleted).task_output
               /\ done.tasks[t].completed_at # NoTime
               /\ done.workers[w].status = "available"
               /\ done.workers[w].current_task_id = Nil

C19_Witness ==
    /\ report = Idle
    /\ \E t \in DOMAIN tasks, w \in DOMAIN workers :
        /\ tasks[t].status = TaskStatusCompleted
        /\ tasks[t].worker_id = w
        /\ tasks[t].output = "ok"
        /\ tasks[t].started_at # NoTime
        /\ tasks[t].completed_at # NoTime
        /\ workers[w].status = "available"
        /\ workers[w].current_task_id = Nil
        /\ workers[w].total_tasks_handled = 1

(* C20: ledger release: when a task leaves scheduled or running by
   completion, reported failure, timeout or orphan recovery, its requirement
   is subtracted from the ledger, so between passes and requests, when no
   task is scheduled or running, no worker names a task, none was cancelled
   and every ended task had been assigned, the ledger's commitments are
   (0, 0, 0) *)
C20_LedgerRelease ==
    ( /\ spc = "idle"
      /\ cancel = Idle
      /\ report = Idle
      /\ \A w \in DOMAIN workers : workers[w].current_task_id = Nil
      /\ \A t \in DOMAIN tasks :
            /\ tasks[t].status \notin Active \cup {TaskStatusCancelled}
            /\ tasks[t].status \in {TaskStatusCompleted, TaskStatusFailed}
                  => tasks[t].worker_id \in DOMAIN workers )
    => resources = WorkerResourcesUpdate(0, 0, 0)

(* C21: budget-exhaustion boundary (I5): a scheduled or running task whose
   retry_count is max_retries - 1, when orphaned, ends as failed with the
   budget-exhaustion error and is not requeued *)
C21_ExhaustionBoundary ==
    \A t \in DOMAIN tasks :
        ( /\ tasks[t].status \in Active
          /\ tasks[t].worker_id \in DOMAIN workers
          /\ tasks[t].retry_count = tasks[t].max_retries - 1 )
        => /\ OrphanPolicy(tasks[t]).status = TaskStatusFailed
           /\ OrphanPolicy(tasks[t]).error = "Task failed after maximum retry attempts"

(* C22: graceful shutdown: when Stop() has returned no pass is in flight, and
   no pass can start any more *)
C22_GracefulShutdown ==
    stopPc = "returned"
    => /\ spc = "idle"
       /\ ~ENABLED processPendingTasks
       /\ ~ENABLED checkTaskTimeouts
       /\ ~ENABLED handleFailedWorkers

(* Stop returned after a pass that had assigned a task *)
C22_Witness ==
    /\ stopPc = "returned"
    /\ \E t \in DOMAIN tasks : tasks[t].status = TaskStatusScheduled

(* C23: heartbeat for an unknown worker: with the store answering, a ping for
   a worker id that is not in the store is answered 404 and changes no
   record; a ping for a known worker is answered 200 *)
C23_HeartbeatUnknown ==
    DOMAIN workers # {}
    => \A id \in WorkerIds :
          IF id \in DOMAIN workers
          THEN HeartbeatReply(workers, id, TRUE) = StatusOK
          ELSE /\ HeartbeatReply(workers, id, TRUE) = StatusNotFound
               /\ UpdateHeartbeat(workers, id) = workers

(* C24: MCPWorker.ProcessTask outcome: when both store updates succeed the
   first leaves the row running with started_at set, and the second leaves it
   terminal with completed_at set: completed with a non-nil output exactly
   when the type handler returned no error, and failed with the handler's
   error text otherwise, an unsupported task type included *)
C24_ProcessTaskOutcome ==
    [][ /\ ( /\ mcp.pc = "none"
             /\ mcp'.pc = "handle" )
           => /\ mcp'.row.status = TaskStatusRunning
              /\ mcp'.row.started_at # NoTime
        /\ ( /\ mcp.pc = "update"
             /\ mcp'.pc = "returned"
             /\ mcp'.ret # "failed to update task status" )
           => /\ mcp'.row.completed_at # NoTime
              /\ mcp'.row.started_at # NoTime
              /\ IF mcp.result.err = Nil
                 THEN /\ mcp'.row.status = TaskStatusCompleted
                      /\ mcp'.row.output # Nil
                 ELSE /\ mcp'.row.status = TaskStatusFailed
                      /\ mcp'.row.error = mcp.result.err
              /\ mcp.task.type \notin MCPTaskTypes => mcp'.row.status = TaskStatusFailed
      ]_vars

(* ProcessTask has returned after both updates, for a task of an
   unsupported type and after time has passed *)
C24_Witness ==
    /\ mcp.pc = "returned"
    /\ mcp.row.status = TaskStatusFailed
    /\ mcp.row.error = "unsupported MCP task type"
    /\ mcp.row.completed_at > mcp.row.started_at

(* C25: assignment compensation: when, assigning task T to worker W, the
   task write succeeded and the worker write failed, the pass rewrites T; when
   that write succeeds the store holds T as pending with worker_id nil, and
   W's stored record is left as it was, available with current_task_id nil *)
C25_AssignmentCompensation ==
    [][ ( /\ spc = "assignRevert"
          /\ spc' # "assignRevert"
          /\ quota'.faults = quota.faults )
        => LET t == pendingTasks[ti].id
               w == availableWorkers[wi].id
           IN  /\ tasks'[t].status = TaskStatusPending
               /\ tasks'[t].worker_id = Nil
               /\ workers'[w] = workers[w]
               /\ workers'[w].status = "available"
               /\ workers'[w].current_task_id = Nil ]_vars

(* the compensating write has run: a fault was spent on the worker write,
   which came after updateWorkerResources, and the task is back to pending
   with no worker *)
C25_Witness ==
    /\ quota.faults < MaxFailures
    /\ spc = "idle"
    /\ resources # WorkerResourcesUpdate(0, 0, 0)
    /\ \E t \in DOMAIN tasks :
        /\ tasks[t].status = TaskStatusPending
        /\ tasks[t].worker_id = Nil
    /\ \E w \in DOMAIN workers :
        /\ workers[w].status = "available"
        /\ workers[w].current_task_id = Nil

(* the worker write and the compensating write failed both: between passes T
   is stored scheduled on W while W is stored available with no task; no
   cancel or worker report has been sent *)
Unreconciled(w, t) ==
    /\ spc = "idle"
    /\ t \in DOMAIN tasks
    /\ w \in DOMAIN workers
    /\ tasks[t].status = TaskStatusScheduled
    /\ tasks[t].worker_id = w
    /\ workers[w].status = "available"
    /\ workers[w].current_task_id = Nil
    /\ quota.faults = 0
    /\ quota.reqs = MaxRequests

(* C26: reconciliation after failed compensation: a task left scheduled on W
   while W's current_task_id is not the task is eventually reconciled by later
   passes: it does not stay scheduled forever (it returns to pending or
   becomes failed, unless a client or a worker ends it first) *)
C26_Reconciliation ==
    \A w \in WorkerIds : \A t \in TaskIds :
        Unreconciled(w, t) ~>
            ( /\ t \in DOMAIN tasks
              /\ tasks[t].status # TaskStatusScheduled )

(* a running task is past the scheduler's task timeout *)
Overdue ==
    \E t \in DOMAIN tasks :
        /\ tasks[t].status = TaskStatusRunning
        /\ TimedOut(tasks[t], now)

(* C27: all three loops are driven: while the scheduler runs, the loop is
   again and again between passes, ready for its next tick; a liveness pass
   executes again and again; and a timeout sweep executes again and again, so
   that again and again either no running task is overdue or the sweep is
   failing one *)
C27_LoopsDriven ==
    /\ []<>(spc = "idle")
    /\ []<>(spc = "livenessThreshold")
    /\ []<>(spc = "timeoutTask" \/ ~Overdue)

(* C28: commit ordering: the ledger's commitments change for an assignment
   only in the step in which the worker write, the second of the
   assignment's two store writes, succeeds; an attempt whose worker write
   fails leaves the ledger unchanged *)
C28_CommitOrdering ==
    [][ resources' # resources
        => /\ spc = "assignWorker"
           /\ spc' # "assignRevert"
           /\ workers'[availableWorkers[wi].id].current_task_id = pendingTasks[ti].id
      ]_vars

(* no task has been released yet: every task is pending with no worker, or
   scheduled or running on its worker *)
NothingReleased ==
    \A t \in DOMAIN tasks :
        \/ tasks[t].status = TaskStatusPending /\ tasks[t].worker_id = Nil
        \/ tasks[t].status \in Active /\ tasks[t].worker_id \in DOMAIN workers

(* C29: per-worker ledger accounting: between passes and requests, the
   amount the ledger holds as committed for worker W is the sum of the
   requirements of the tasks committed to W and not released, whatever was
   committed for other workers *)
C29_PerWorkerLedger ==
    ( /\ spc = "idle"
      /\ cancel = Idle
      /\ report = Idle
      /\ NothingReleased )
    => \A w \in DOMAIN workers :
          /\ Committed(resources, w).cpu = SumRequired(Held(w), "cpu")
          /\ Committed(resources, w).mem = SumRequired(Held(w), "mem")
          /\ Committed(resources, w).gpu = SumRequired(Held(w), "gpu")

(* C30: can_fit definition: for every worker the pass has listed and every
   task it has fetched, canWorkerHandleTask is true exactly when committed +
   required <= advertised on CPU, on memory (both sides in MiB) and on GPU, and
   the task's model_name is empty or among the worker's capabilities, with
   required (0.5 core, 1 GB, 0.3) for an empty model_name and (1 core, 2 GB,
   0.7) otherwise; CPU is counted in half cores, GPU in tenths *)
C30_CanFitDefinition ==
    \A i \in 1..Len(pendingTasks), j \in 1..Len(availableWorkers) :
        LET task == pendingTasks[i]
            worker == availableWorkers[j]
            committed == Committed(resources, worker.id)
            advertised == Advertised(worker)
            required == IF task.model_name = ""
                        THEN [cpu |-> 1, mem |-> 1, gpu |-> 3]
                        ELSE [cpu |-> 2, mem |-> 2, gpu |-> 7]
        IN  canWorkerHandleTask(worker, task, resources)
            <=> /\ committed.cpu + required.cpu <= advertised.available_cpu
                /\ (committed.mem + required.mem) * MiBPerGB <= advertised.available_memory
                /\ committed.gpu + required.gpu <= advertised.available_gpu
                /\ \/ task.model_name = ""
                   \/ task.model_name \in worker.capabilities

(* the pass is weighing a listed worker that advertises the task's model and
   has the CPU and the memory, and that the GPU alone rules out *)
C30_Witness ==
    /\ spc # "idle"
    /\ \E i \in 1..Len(pendingTasks), j \in 1..Len(availableWorkers) :
        LET task == pendingTasks[i]
            worker == availableWorkers[j]
        IN  /\ task.model_name \in worker.capabilities
            /\ resources.cpu + Required(task.model_name).cpu <= worker.available_cpu
            /\ (resources.mem + Required(task.model_name).mem) * MiBPerGB
                   <= worker.available_memory
            /\ resources.gpu + Required(task.model_name).gpu > worker.available_gpu
            /\ ~canWorkerHandleTask(worker, task, resources)

(* a worker that ListAvailable returns now and that canWorkerHandleTask
   accepts for task t *)
FittingAvailable(t) ==
    \E w \in AvailableRows(workers, now) : canWorkerHandleTask(w, tasks[t], resources)

(* the pending tasks that sort ahead of t in (priority DESC, created_at ASC) *)
Ahead(t) == {u \in PendingIds \ {t} : TaskBefore(tasks[u], tasks[t])}

(* C31: starvation freedom between passes: with finitely many tasks ever
   created, a pending task does not stay pending for ever while a worker that
   fits it stays available: it is eventually scheduled, whatever tasks sort
   ahead of it and fill the batch of MaxTasks *)
C31_StarvationFreedom ==
    \A t \in TaskIds :
        (t \in DOMAIN tasks /\ tasks[t].status = TaskStatusPending)
        ~> ( /\ t \in DOMAIN tasks
             /\ \/ tasks[t].status = TaskStatusScheduled
                \/ ~FittingAvailable(t) )

(* between passes a pending task has a fitting worker available and lies
   outside the next batch: MaxTasks pending tasks sort ahead of it *)
C31_Witness ==
    /\ spc = "idle"
    /\ \E t \in PendingIds :
        /\ FittingAvailable(t)
        /\ Cardinality(Ahead(t)) >= MaxTasks

(* C32: heartbeat monotonicity under concurrency: no step lowers a worker's
   stored last_heartbeat, however heartbeat pings interleave with the
   scheduler's whole-record writes of a worker it read earlier *)
C32_HeartbeatMonotone ==
    [][ \A w \in DOMAIN workers :
          workers'[w].last_heartbeat >= workers[w].last_heartbeat ]_vars

(* C33: advertised capacity is not a live balance: the worker write of an
   assignment changes only the worker's stored status and current_task_id;
   its stored available_cpu, available_memory and available_gpu stay as they
   were *)
C33_CapacityKept ==
    [][ (spc = "assignWorker" /\ spc' # "assignWorker")
        => \A w \in DOMAIN workers :
              workers'[w] = [workers[w] EXCEPT
                                !.status = workers'[w].status,
                                !.current_task_id = workers'[w].current_task_id] ]_vars

WorkerListIds == {availableWorkers[j].id : j \in 1..Len(availableWorkers)}

(* C34: one task per worker per pass: when a pass's worker write succeeds the
   worker's stored row named no task before it (no earlier write of this pass
   gave it one), the worker is gone from the pass's candidate list after it,
   and the candidate list names no worker twice nor gains a worker during the
   pass; so no worker is assigned two tasks in one pass, also when an earlier
   write for it failed and it is tried again *)
C34_OneTaskPerWorkerPerPass ==
    [][ /\ \A w \in DOMAIN workers :
             ( /\ spc = "assignWorker"
               /\ workers'[w].current_task_id # workers[w].current_task_id )
             => /\ workers[w].current_task_id = Nil
                /\ workers'[w].current_task_id = pendingTasks[ti].id
                /\ availableWorkers[wi].id = w
                /\ \A j \in 1..Len(availableWorkers') : availableWorkers'[j].id # w
        /\ spc \in {"assignTask", "assignWorker", "assignRevert"}
             => /\ \A j \in 1..Len(availableWorkers') :
                      availableWorkers'[j].id \in WorkerListIds
                /\ Cardinality(WorkerListIds) = Len(availableWorkers)
      ]_vars

(* a pass whose worker write for a task failed has tried a worker again for
   the next task and assigned it: the stored row carries both deductions *)
C34_Witness ==
    \E w \in DOMAIN workers, t \in DOMAIN tasks :
        /\ workers[w].current_task_id = t
        /\ tasks[t].worker_id = w
        /\ workers[w].available_cpu
              < Advertised(workers[w]).available_cpu - Required(tasks[t].model_name).cpu
        /\ \E u \in DOMAIN tasks : tasks[u].status = TaskStatusPending

(* the requirement of the task worker w's row names, (0, 0, 0) when it names
   none *)
HeldByRow(w) ==
    IF workers[w].current_task_id \in DOMAIN tasks
    THEN WorkerResourcesUpdate(Required(tasks[workers[w].current_task_id].model_name).cpu,
                               Required(tasks[workers[w].current_task_id].model_name).mem,
                               Required(tasks[workers[w].current_task_id].model_name).gpu)
    ELSE WorkerResourcesUpdate(0, 0, 0)

(* every worker row that names a task names one assigned to that worker and
   still scheduled or running *)
RowsAssigned ==
    \A w \in DOMAIN workers :
        workers[w].current_task_id # Nil
        => /\ workers[w].current_task_id \in DOMAIN tasks
           /\ tasks[workers[w].current_task_id].worker_id = w
           /\ tasks[workers[w].current_task_id].status \in Active

(* C35: ledger reconstruction: immediately after a restart over a store in
   which the worker rows name the tasks assigned to them, the committed amount
   for each worker is the requirement of the task its row names (the workers
   with non-null current_task_id), and the ledger is what it was before the
   restart *)
C35_LedgerReconstruction ==
    [][ (stopPc = "returned" /\ stopPc' = "none" /\ RowsAssigned)
        => /\ \A w \in DOMAIN workers : Committed(resources', w) = HeldByRow(w)
           /\ resources' = resources ]_vars

(* C36: timeout with remaining budget: when the sweep writes a running task
   that was assigned to a worker and exceeded its timeout, a task with retry_count < max_retries goes back
   to pending with worker_id cleared and retry_count incremented; only a task
   whose budget is exhausted goes to failed *)
C36_TimeoutRequeues ==
    [][ ( /\ spc = "timeoutTask"
          /\ runningTasks[ti].id \in DOMAIN tasks
          /\ runningTasks[ti].worker_id \in DOMAIN workers
          /\ runningTasks[ti].started_at # NoTime
          /\ sweep.now - runningTasks[ti].started_at > runningTasks[ti].timeout
          /\ tasks'[runningTasks[ti].id] # tasks[runningTasks[ti].id] )
        => LET before == runningTasks[ti]
               after == tasks'[runningTasks[ti].id]
           IN  IF before.retry_count < before.max_retries
               THEN /\ after.status = TaskStatusPending
                    /\ after.worker_id = Nil
                    /\ after.retry_count = before.retry_count + 1
               ELSE after.status = TaskStatusFailed ]_vars

(* C37: worker recovery: a worker the liveness monitor moved to offline that
   sends a fresh heartbeat is available again under the same id and is listed
   for assignment *)
C37_WorkerRecovery ==
    \A w \in DOMAIN workers :
        (workers[w].status = "offline" /\ workers[w].current_task_id = Nil)
        => LET after == UpdateHeartbeat(workers, w)
           IN  /\ after[w].status = "available"
               /\ after[w] \in AvailableRows(after, now)

(* C38: no stranded assignments: outside the middle of an assignment's write
   sequence (the task written, the worker not yet), every task that is
   scheduled or running with worker_id = W is the task W's row names *)
C38_NoStrandedAssignment ==
    spc \notin {"assignWorker", "assignRevert"}
    => \A t \in DOMAIN tasks :
          (tasks[t].status \in Active /\ tasks[t].worker_id \in DOMAIN workers)
          => workers[tasks[t].worker_id].current_task_id = t

(* the entry of the queue pushed before every other entry still in it *)
Oldest(q) ==
    CHOOSE e \in {q[i] : i \in 1..Len(q)} :
        \A i \in 1..Len(q) : e.seq <= q[i].seq

QueueEntries(q) == {q[i] : i \in 1..Len(q)}

(* C39: MemoryQueue is FIFO for one caller: Pop returns the entry pushed
   earliest among those neither popped nor deleted and removes it alone; Pop
   on an empty queue returns an error and changes nothing; Delete of an id
   not in the queue returns an error and changes nothing, and a Delete that
   succeeds removes one entry of that id; Size is the number of pushes minus
   the pops and the deletes that succeeded *)
C39_MemoryQueueFIFO ==
    [][ /\ QueueSize(memq'.tasks) = memq'.pushed - memq'.popped - memq'.deleted
        /\ (memq' # memq /\ memq'.ret.op = "pop") =>
             IF memq.tasks = << >>
             THEN /\ memq'.ret.err # Nil
                  /\ memq'.tasks = memq.tasks
             ELSE /\ memq'.ret.err = Nil
                  /\ memq'.ret.task = Oldest(memq.tasks)
                  /\ QueueEntries(memq'.tasks)
                         = QueueEntries(memq.tasks) \ {Oldest(memq.tasks)}
                  /\ QueueSize(memq'.tasks) = QueueSize(memq.tasks) - 1
        /\ (memq' # memq /\ memq'.ret.op = "delete") =>
             IF \A e \in QueueEntries(memq.tasks) : e.id # memq'.ret.id
             THEN /\ memq'.ret.err # Nil
                  /\ memq'.tasks = memq.tasks
             ELSE /\ memq'.ret.err = Nil
                  /\ \E e \in QueueEntries(memq.tasks) :
                         /\ e.id = memq'.ret.id
                         /\ QueueEntries(memq'.tasks) = QueueEntries(memq.tasks) \ {e}
                  /\ QueueSize(memq'.tasks) = QueueSize(memq.tasks) - 1
        /\ (memq' # memq /\ memq'.ret.op = "push") =>
             /\ QueueSize(memq'.tasks) = QueueSize(memq.tasks) + 1
             /\ QueueEntries(memq.tasks) \subseteq QueueEntries(memq'.tasks)
      ]_vars

(* three tasks were pushed, the first was deleted, and Pop has returned the
   second, leaving the third *)
C39_Witness ==
    /\ memq.pushed = 3
    /\ memq.deleted = 1
    /\ memq.ret.op = "pop"
    /\ memq.ret.err = Nil
    /\ memq.ret.task.seq = 2
    /\ QueueSize(memq.tasks) = 1
    /\ memq.tasks[1].seq = 3

=============================================================================
